---- MODULE Spec2Model ----
(***************************************************************************)
(* Model of spotify-backup.py: the top-level export script, SpotifyAPI     *)
(* (get / list / list_artists / authorize / generate), the loopback        *)
(* authorization listener and the upload / delete tail of the run.         *)
(*                                                                         *)
(* Strings of the program that are parsed (request paths, URLs) are        *)
(* sequences of lexical tokens, so that prefix tests, the access_token     *)
(* regular expression and the URL construction are computed, not assumed.  *)
(***************************************************************************)
EXTENDS Integers, Sequences, FiniteSets, TLC

\* ---------------------------------------------------------------- bounds
MaxItems == 2        \* largest number of items of one paginated resource
MaxPages == 2        \* largest number of pages of one paginated resource
MaxRequests == 3     \* requests the loopback listener is sent in one run
MaxQuery == 4        \* tokens after "/token?" in a generated request path
MaxAnswers == 2      \* answers typed at one yes/no prompt
MaxRefused == 1      \* refused browser connections before / after listening
MaxUrl == 3          \* tokens of a URL passed to get() on its own
MaxRecords == 2      \* records of a list passed to save_track on its own

\* ------------------------------------------------------ program constants
tries == 3           \* default of get(url, params, tries)

\* ------------------------------------------------------------- utilities
Range(s) == {s[i] : i \in 1..Len(s)}

StartsWith(s, p) == Len(s) >= Len(p) /\ SubSeq(s, 1, Len(p)) = p

RECURSIVE SeqsUpTo(_, _)
SeqsUpTo(S, n) ==
    IF n = 0 THEN {<< >>}
    ELSE LET shorter == SeqsUpTo(S, n - 1)
         IN  shorter \cup {Append(s, x) : s \in shorter, x \in S}

\* ------------------------------------------------- listener request paths
QueryAlphabet == {"access_token=", "&", "x=", "a"}

\* every "/token?..." path with at most MaxQuery tokens of query string
TokenPaths == {<<"/token", "?">> \o q : q \in SeqsUpTo(QueryAlphabet, MaxQuery)}

RedirectPaths == {<<"/redirect">>,
                  <<"/redirect", "?", "x=", "a">>,
                  <<"/redirect", "a">>}

OtherPaths == {<<"/">>,
               <<"/favicon.ico">>,
               <<"/token">>,
               <<"/token", "a", "?", "access_token=", "a">>,
               <<"/x", "/redirect">>,
               <<"/x", "/token", "?", "access_token=", "a">>}

Paths == TokenPaths \cup RedirectPaths \cup OtherPaths

\* the requests a whole run of the script is sent
RunPaths == {<<"/redirect">>,
             <<"/token", "?", "access_token=", "a", "&", "x=", "a">>,
             <<"/token", "?", "x=", "a">>,
             <<"/favicon.ico">>}

\* access tokens the token endpoint hands out
Tokens == {<<"a">>, <<"b">>}

NoSpotify == <<"<unassigned>">>

\* "/token" tested without its "?"
Route_no_query(path) ==
    IF StartsWith(path, <<"/redirect">>) THEN "redirect"
    ELSE IF StartsWith(path, <<"/token">>) THEN "token"
    ELSE "other"

\* "/redirect" in self.path instead of startswith
Route_anywhere(path) ==
    IF "/redirect" \in Range(path) THEN "redirect"
    ELSE IF StartsWith(path, <<"/token", "?">>) THEN "token"
    ELSE "other"

\* self.path.startswith("/redirect") / self.path.startswith("/token?")
Route(path) ==
    IF StartsWith(path, <<"/redirect">>) THEN "redirect"
    ELSE IF StartsWith(path, <<"/token", "?">>) THEN "token"
    ELSE "other"

\* (.*) in place of ([^&]*): everything up to the end of the path
NotAmpRun_greedy(s) == s

\* [^&]* : the longest prefix of s without "&"
RECURSIVE NotAmpRun(_)
NotAmpRun(s) ==
    IF s = << >> \/ Head(s) = "&" THEN << >>
    ELSE <<Head(s)>> \o NotAmpRun(Tail(s))

\* re.search("access_token=([^&]*)", path): position of the leftmost match,
\* 0 when there is none (re.search returns None)
re_search(path) ==
    IF \E i \in 1..Len(path) : path[i] = "access_token="
    THEN CHOOSE i \in 1..Len(path) :
            /\ path[i] = "access_token="
            /\ \A j \in 1..(i - 1) : path[j] # "access_token="
    ELSE 0

\* .group(1) of that match
group1(path) == NotAmpRun(SubSeq(path, re_search(path) + 1, Len(path)))

\* ------------------------------------------------------------ resource URLs
Base == "https://api.spotify.com/v1/"

NoUrl == << >>
Null == << >>                     \* JSON null in a "next" field
NoResponse == [items |-> << >>, next |-> <<"<no response>">>]

OffsetToks == <<"offset=1", "offset=2", "offset=3", "offset=4", "offset=5">>

\* get(), lines 100-103: qualify a relative path, append the encoded params
get_url(u, params) ==
    LET q == IF Head(u) # Base THEN <<Base>> \o u ELSE u
    IN  IF params # << >>
        THEN q \o <<(IF "?" \in Range(q) THEN "&" ELSE "?")>> \o params
        ELSE q

\* arguments get() can be called with: relative paths and absolute URLs, on
\* the API base or elsewhere, with and without a query string
Other == "https://api.spotify.com/v2/"
UrlAlphabet == {Base, Other, "me/tracks", "?", "offset=1"}
UrlInputs == SeqsUpTo(UrlAlphabet, MaxUrl) \ {<< >>}
ParamInputs == {<< >>, <<"limit=50">>, <<"type=artist", "&", "limit=50">>}

\* the steps of the script that call spotify.get / list / list_artists
ListSteps == {"liked", "playlists", "user_tracks", "foreign_tracks",
              "artists", "albums", "shows", "episodes"}
GetSteps == {"me"} \cup ListSteps

\* first argument of the call made by each step
SeedOf(step) ==
    CASE step = "me"             -> <<"me">>
      [] step = "liked"          -> <<"users/me/tracks">>
      [] step = "playlists"      -> <<"users/me/playlists">>
      [] step = "user_tracks"    -> <<Base, "playlists/id/tracks">>
      [] step = "foreign_tracks" -> <<Base, "playlists/id/tracks">>
      [] step = "artists"        -> <<"me/following">>
      [] step = "albums"         -> <<"me/albums">>
      [] step = "shows"          -> <<"me/shows">>
      [] step = "episodes"       -> <<"me/episodes">>

\* second argument, as urllib.parse.urlencode renders it
ParamsOf(step) ==
    CASE step = "me"                                 -> << >>
      [] step \in {"user_tracks", "foreign_tracks"}  -> <<"limit=100">>
      [] step = "artists"                   -> <<"type=artist", "&", "limit=50">>
      [] OTHER                                       -> <<"limit=50">>

\* --------------------------------------------------- the resource server
RECURSIVE Flatten(_)
Flatten(pages) ==
    IF pages = << >> THEN << >> ELSE Head(pages) \o Flatten(Tail(pages))

\* the pages the server may serve after those in served: the items are
\* numbered in server order, at most MaxItems of them in the resource
PagesAfter(served) ==
    LET c == Len(Flatten(served))
    IN  {[i \in 1..k |-> c + i] : k \in 0..(MaxItems - c)}

IsOffset(t) == \E k \in 1..Len(OffsetToks) : OffsetToks[k] = t

\* the page a request URL asks for: its offset parameter, page 1 without one
PageOf(u) ==
    IF IsOffset(u[Len(u)])
    THEN CHOOSE k \in 1..Len(OffsetToks) : OffsetToks[k] = u[Len(u)]
    ELSE 1

\* a URL the API answers with the page that follows those in served: the base
\* once, then the resource path, asking for that page
Servable(served, u) ==
    /\ Len(u) >= 2
    /\ u[1] = Base
    /\ u[2] # Base
    /\ PageOf(u) = Len(served) + 1

\* the "next" link of the page requested with u, when more pages follow
NextLink(u, more) ==
    IF ~more THEN Null
    ELSE (IF IsOffset(u[Len(u)]) THEN SubSeq(u, 1, Len(u) - 2) ELSE u)
         \o <<(IF "?" \in Range(u) THEN "&" ELSE "?"), OffsetToks[PageOf(u) + 1]>>

\* the paging object of the JSON body returned for u
Page(page, u, more) == [items |-> page, next |-> NextLink(u, more)]

\* followed artists nest the paging object under "artists"
Body(step, page, u, more) ==
    IF step = "artists" THEN [artists |-> Page(page, u, more)]
    ELSE Page(page, u, more)

\* playlist['owner']['id'] == me['id']
IsOwn(playlist) == playlist % 2 = 1

\* ------------------------------------------------------------------ yesno
AnswerAlphabet == {"", "y", "n", "Y", " n", "x"}

\* input(question).strip().lower()
strip_lower(a) ==
    CASE a = "Y"  -> "y"
      [] a = " n" -> "n"
      [] OTHER    -> a

\* yesno(question, default) reading the answers in turn; "blocked" when the
\* answers run out before one is accepted
RECURSIVE yesno(_, _)
yesno(answers, default) ==
    IF answers = << >> THEN "blocked"
    ELSE LET ans == strip_lower(Head(answers))
         IN  IF default # "None"
             THEN IF ans = ""
                  THEN (IF default = "y" THEN "True" ELSE "False")
                  ELSE IF ans \notin {"y", "n"}
                       THEN yesno(Tail(answers), "None")
                       ELSE (IF ans = "y" THEN "True" ELSE "False")
             ELSE IF ans \notin {"y", "n"}
                  THEN yesno(Tail(answers), "None")
                  ELSE (IF ans = "y" THEN "True" ELSE "False")

AnswerSeqs == SeqsUpTo(AnswerAlphabet, MaxAnswers)

\* ------------------------------------------------------------------ state
VARIABLES
    pc,            \* position of the script: the statement about to run
    exitCode,      \* exit status of the process, -1 while it runs
    always_yes,    \* args.always_yes
    delete_backup, \* args.delete
    healthUrl,     \* os.environ["HEALTH_CHECK_URL"]: "unset", "empty" or "set"
    refreshTok,    \* os.getenv('SPOTIFY_REFRESH_TOKEN'): "unset", "empty", "set"
    started,       \* credential strategies entered: "generate", "authorize"
    posts,         \* POSTs sent to the token endpoint
    spotify,       \* spotify._auth, NoSpotify until the object exists
    granted,       \* the access_token of the token endpoint's response
    browserOpen,   \* webbrowser.open(url) has been called
    sock,          \* the listening socket: "none", "listening" or "closed"
    servedBridge,  \* a /redirect request was answered in this authorize call
    handled,       \* requests passed to do_GET
    lastPath,      \* self.path of the request handled last
    lastStatus,    \* what it was answered with
    events,        \* _Authorization exceptions raised
    inGet,         \* a get() call is inside its retry loop
    url,           \* the URL of the current (or last) get() call
    attempts,      \* requests sent by that call
    sleeps,        \* time.sleep(2) calls made by that call
    lastErr,       \* the failure of the last attempt, "none" after a success
    srv,           \* the pages the server has served to the current call
    response,      \* the body the last get() returned
    items,         \* the accumulator of list / list_artists
    pagesFetched,  \* get() calls that returned to the current list call
    listDone,      \* the last list call has returned (ret is its result)
    ret,           \* what the last list call returned
    fetched,       \* a resource GET has been sent
    bearer,        \* the Authorization header values sent with resource GETs
    failedAt,      \* the step whose get() called sys.exit(1), "none" otherwise
    save_foreign_playlists,
    user_playlists,
    foreign_playlists,
    todo,          \* the playlists the running for loop has not reached yet
    b2_upload,
    written,       \* the CSV files written, in order
    uploaded,      \* sync_folders has completed
    pinged,        \* the success ping has been sent
    deleted,       \* shutil.rmtree(save_loc) has run
    earlyHits,     \* browser connections refused before the listener was bound
    lateHits,      \* browser connections refused after the listener was closed
    cursors,       \* per page served to the current call: was "next" non-null
    argUrl,        \* the url argument of a get() call
    argParams,     \* its params argument
    track_list,    \* the record list handed to save_track
    rows,          \* the rows save_track has written
    saveStatus,    \* how save_track ended: "closed" or the exception raised
    yesnoAnswers,  \* the lines typed at a yesno prompt, in order
    yesnoDefault,  \* the default argument of that yesno call
    yesnoResult    \* what the call returned, "blocked" while it waits for input

envVars == <<always_yes, delete_backup, healthUrl, refreshTok>>
loginVars == <<started, posts, spotify, granted>>
listenerVars == <<browserOpen, sock, servedBridge, handled, lastPath,
                  lastStatus, events>>
getVars == <<inGet, url, attempts, sleeps, lastErr, response, fetched, bearer,
             failedAt>>
listVars == <<srv, items, pagesFetched, listDone, ret, cursors>>
scriptVars == <<save_foreign_playlists, user_playlists, foreign_playlists,
                todo, b2_upload, written>>
tailVars == <<uploaded, pinged, deleted>>
hitVars == <<earlyHits, lateHits>>
callVars == <<argUrl, argParams>>
saveVars == <<track_list, rows, saveStatus>>
promptVars == <<yesnoAnswers, yesnoDefault, yesnoResult>>
auxVars == <<hitVars, callVars, saveVars, promptVars>>

vars == <<pc, exitCode, envVars, loginVars, listenerVars, getVars, listVars,
          scriptVars, tailVars, auxVars>>

EnvValues == {"unset", "empty", "set"}

\* everything but the position, the arguments and environment of the run and
\* the inputs of the calls examined on their own
Fresh ==
    /\ exitCode = -1
    /\ started = {}
    /\ posts = 0
    /\ spotify = NoSpotify
    /\ granted = NoSpotify
    /\ browserOpen = FALSE
    /\ sock = "none"
    /\ servedBridge = FALSE
    /\ handled = 0
    /\ lastPath = << >>
    /\ lastStatus = "none"
    /\ events = 0
    /\ inGet = FALSE
    /\ url = NoUrl
    /\ attempts = 0
    /\ sleeps = 0
    /\ lastErr = "none"
    /\ srv = << >>
    /\ response = NoResponse
    /\ items = << >>
    /\ pagesFetched = 0
    /\ listDone = FALSE
    /\ ret = << >>
    /\ fetched = FALSE
    /\ bearer = {}
    /\ failedAt = "none"
    /\ save_foreign_playlists = FALSE
    /\ user_playlists = << >>
    /\ foreign_playlists = << >>
    /\ todo = << >>
    /\ b2_upload = FALSE
    /\ written = << >>
    /\ uploaded = FALSE
    /\ pinged = FALSE
    /\ deleted = FALSE
    /\ earlyHits = 0
    /\ lateHits = 0
    /\ cursors = << >>
    /\ rows = << >>
    /\ saveStatus = "none"
    /\ yesnoResult = "none"

Init ==
    /\ pc = "start"
    /\ always_yes \in BOOLEAN
    /\ delete_backup \in BOOLEAN
    /\ healthUrl \in EnvValues
    /\ refreshTok \in EnvValues
    /\ argUrl = NoUrl
    /\ argParams = << >>
    /\ track_list = << >>
    /\ yesnoAnswers = << >>
    /\ yesnoDefault = "None"
    /\ Fresh

\* an exception nobody catches: traceback, exit status 1
Crash ==
    /\ pc' = "exit"
    /\ exitCode' = 1

\* ---------------------------------------------------------------- start-up
\* lines 43-44: the start ping; os.environ[...] raises KeyError when unset
Startup(outcome) ==
    /\ pc = "start"
    /\ IF healthUrl = "unset" \/ (healthUrl = "set" /\ outcome = "error")
       THEN Crash
       ELSE pc' = "login" /\ UNCHANGED exitCode
    /\ UNCHANGED <<envVars, auxVars, loginVars, listenerVars, getVars, listVars,
                   scriptVars, tailVars>>

\* ------------------------------------------------------------------- login
\* the test of line 490 negated
UseRefreshToken_inverted == refreshTok # "set"

\* line 490: if (os.getenv('SPOTIFY_REFRESH_TOKEN'))
UseRefreshToken == refreshTok = "set"

\* what the POST can come to: an exception, a body that is not JSON, a JSON
\* body without "access_token", or a body with one
ExchangeOutcomes ==
    {<<"<error>">>, <<"<not json>">>, <<"<no access_token>">>} \cup Tokens

\* generate wrapped in a retry: a failed exchange is posted again
generate_retrying(outcome) ==
    /\ pc = "login"
    /\ UseRefreshToken
    /\ posts < tries
    /\ started' = started \cup {"generate"}
    /\ posts' = posts + 1
    /\ IF outcome \in Tokens
       THEN /\ spotify' = outcome
            /\ granted' = outcome
            /\ pc' = "me"
            /\ UNCHANGED exitCode
       ELSE UNCHANGED <<pc, exitCode, spotify, granted>>
    /\ UNCHANGED <<envVars, auxVars, listenerVars, getVars, listVars, scriptVars,
                   tailVars>>

\* SpotifyAPI.generate: one requests.post, then r.json()['access_token']
generate(outcome) ==
    /\ pc = "login"
    /\ UseRefreshToken
    /\ started' = started \cup {"generate"}
    /\ posts' = posts + 1
    /\ IF outcome \in Tokens
       THEN /\ spotify' = outcome
            /\ granted' = outcome
            /\ pc' = "me"
            /\ UNCHANGED exitCode
       ELSE /\ Crash
            /\ UNCHANGED <<spotify, granted>>
    /\ UNCHANGED <<envVars, auxVars, listenerVars, getVars, listVars, scriptVars,
                   tailVars>>

\* SpotifyAPI.authorize, lines 151-160: build the URL, open the browser
authorize_open ==
    /\ pc = "login"
    /\ ~UseRefreshToken
    /\ started' = started \cup {"authorize"}
    /\ browserOpen' = TRUE
    /\ pc' = "bind"
    /\ UNCHANGED <<exitCode, envVars, auxVars, posts, spotify, granted, sock,
                   servedBridge, handled, lastPath, lastStatus, events,
                   getVars, listVars, scriptVars, tailVars>>

\* line 163: _AuthorizationServer("127.0.0.1", _SERVER_PORT) binds and
\* listens, or raises OSError when the port is taken
authorize_bind(outcome) ==
    /\ pc = "bind"
    /\ IF outcome = "ok"
       THEN /\ sock' = "listening"
            /\ pc' = "serve"
            /\ UNCHANGED exitCode
       ELSE /\ Crash
            /\ UNCHANGED sock
    /\ UNCHANGED <<envVars, auxVars, loginVars, browserOpen, servedBridge, handled,
                   lastPath, lastStatus, events, getVars, listVars,
                   scriptVars, tailVars>>

\* the server object kept alive after authorize (held in a global, say)
release_server_kept(s) == s

\* authorize never calls server_close(): `server` is a local, and the last
\* reference to it (and to its socket) goes when authorize returns or the
\* process dies; CPython's reference counting finalises the socket object at
\* that point, which closes the listening socket
release_server(s) == "closed"

\* socketserver's stock handle_error: the traceback is printed and the
\* exception goes no further
handle_error_logged(exc) == "none"

\* _AuthorizationServer.handle_error (lines 195-197) is a bare raise: the
\* exception do_GET raised leaves handle_request
handle_error(exc) == exc

\* what do_GET raises (lines 199-225): _Authorization on a /token? path with
\* an access_token parameter, AttributeError (None.group) on one without
do_GET_raises(path) ==
    IF Route(path) # "token" THEN "none"
    ELSE IF re_search(path) # 0 THEN "_Authorization" ELSE "AttributeError"

\* the response do_GET sends before it raises anything
do_GET_status(path) ==
    CASE Route(path) = "redirect" -> "bridge"
      [] Route(path) = "token"    -> "close"
      [] OTHER                    -> "404"

\* the except clause storing the token and going round the loop again
authorize_return_loop == "serve"

\* lines 167-168: except _Authorization as auth: return SpotifyAPI(...); the
\* script goes on to spotify.get('me')
authorize_return == "me"

\* one server.handle_request() of the loop at lines 165-166: do_GET on the
\* request, handle_error deciding what becomes of an exception
do_GET(path) ==
    /\ pc = "serve"
    /\ handled < MaxRequests
    /\ handled' = handled + 1
    /\ lastPath' = path
    /\ lastStatus' = do_GET_status(path)
    /\ servedBridge' = (servedBridge \/ Route(path) = "redirect")
    /\ LET exc == IF do_GET_raises(path) = "none" THEN "none"
                  ELSE handle_error(do_GET_raises(path))
       IN  CASE exc = "_Authorization" ->
                  /\ events' = events + 1
                  /\ spotify' = group1(path)
                  /\ sock' = release_server(sock)
                  /\ pc' = authorize_return
                  /\ UNCHANGED exitCode
             [] exc = "AttributeError" ->
                  \* no except clause of authorize matches: uncaught
                  /\ sock' = release_server(sock)
                  /\ Crash
                  /\ UNCHANGED <<spotify, events>>
             [] OTHER ->
                  UNCHANGED <<pc, exitCode, spotify, sock, events>>
    /\ UNCHANGED <<envVars, auxVars, started, posts, granted, browserOpen,
                   getVars, listVars, scriptVars, tailVars>>

\* the browser requests http://127.0.0.1:43019/... between webbrowser.open
\* (line 160) and the bind (line 163): nothing listens, the connection is
\* refused and the program never sees the request
hit_before_bind ==
    /\ browserOpen
    /\ sock = "none"
    /\ pc = "bind"
    /\ earlyHits < MaxRefused
    /\ earlyHits' = earlyHits + 1
    /\ UNCHANGED <<pc, exitCode, envVars, loginVars, listenerVars, getVars,
                   listVars, scriptVars, tailVars, lateHits, callVars,
                   saveVars, promptVars>>

\* the browser requests the port again after authorize has returned and the
\* socket is closed: refused as well
hit_after_close ==
    /\ sock = "closed"
    /\ pc # "exit"
    /\ lateHits < MaxRefused
    /\ lateHits' = lateHits + 1
    /\ UNCHANGED <<pc, exitCode, envVars, loginVars, listenerVars, getVars,
                   listVars, scriptVars, tailVars, earlyHits, callVars,
                   saveVars, promptVars>>

\* --------------------------------------------------------- SpotifyAPI.get
\* the header built without the token
Authorization_bare(auth) == <<"Bearer ">>

\* req.add_header("Authorization", "Bearer " + self._auth)
Authorization(auth) == <<"Bearer ">> \o auth

\* range(tries + 1): one iteration too many
LoopDone_late(n) == n >= tries + 1

\* for _ in range(tries): the loop is over after n iterations
LoopDone(n) == n >= tries

FailureKinds == {"network", "status", "json"}

\* the script is at a get() call that has not started its loop
AtCall == ~inGet /\ response = NoResponse

\* the get() call has returned a body the caller has not consumed yet
Returned == ~inGet /\ response # NoResponse

\* entry of spotify.get('me') / spotify.list(...) / spotify.list_artists(...):
\* the seed URL is built and the retry loop entered
call_begin ==
    /\ pc \in GetSteps
    /\ AtCall
    /\ srv' = << >>
    /\ url' = get_url(SeedOf(pc), ParamsOf(pc))
    /\ inGet' = TRUE
    /\ attempts' = 0
    /\ sleeps' = 0
    /\ lastErr' = "none"
    /\ items' = << >>
    /\ pagesFetched' = 0
    /\ listDone' = FALSE
    /\ ret' = << >>
    /\ cursors' = << >>
    /\ UNCHANGED <<pc, exitCode, envVars, auxVars, loginVars, listenerVars, response,
                   fetched, bearer, failedAt, scriptVars, tailVars>>

\* the except branch without its time.sleep(2)
get_fail_no_sleep(kind) ==
    /\ inGet
    /\ ~LoopDone(attempts)
    /\ attempts' = attempts + 1
    /\ lastErr' = kind
    /\ fetched' = TRUE
    /\ bearer' = bearer \cup {Authorization(spotify)}
    /\ IF LoopDone(attempts + 1)
       THEN /\ pc' = "exit"
            /\ exitCode' = 1
            /\ failedAt' = pc
            /\ inGet' = FALSE
       ELSE UNCHANGED <<pc, exitCode, failedAt, inGet>>
    /\ UNCHANGED <<envVars, auxVars, loginVars, listenerVars, url, sleeps,
                   response, listVars, scriptVars, tailVars>>

\* a get() that gives up by returning an empty last page instead of exiting
get_fail_partial(kind) ==
    /\ inGet
    /\ ~LoopDone(attempts)
    /\ attempts' = attempts + 1
    /\ sleeps' = sleeps + 1
    /\ lastErr' = kind
    /\ fetched' = TRUE
    /\ bearer' = bearer \cup {Authorization(spotify)}
    /\ IF LoopDone(attempts + 1)
       THEN /\ failedAt' = pc
            /\ inGet' = FALSE
            /\ response' = [items |-> << >>, next |-> Null]
            /\ UNCHANGED <<pc, exitCode>>
       ELSE UNCHANGED <<pc, exitCode, failedAt, inGet, response>>
    /\ UNCHANGED <<envVars, auxVars, loginVars, listenerVars, url, listVars,
                   scriptVars, tailVars>>

\* one iteration of the loop that ends in the except branch (lines 114-117);
\* after the last one the loop is left and sys.exit(1) runs (line 118)
get_fail(kind) ==
    /\ inGet
    /\ ~LoopDone(attempts)
    /\ attempts' = attempts + 1
    /\ sleeps' = sleeps + 1
    /\ lastErr' = kind
    /\ fetched' = TRUE
    /\ bearer' = bearer \cup {Authorization(spotify)}
    /\ IF LoopDone(attempts + 1)
       THEN /\ pc' = "exit"
            /\ exitCode' = 1
            /\ failedAt' = pc
            /\ inGet' = FALSE
       ELSE UNCHANGED <<pc, exitCode, failedAt, inGet>>
    /\ UNCHANGED <<envVars, auxVars, loginVars, listenerVars, url, response, listVars,
                   scriptVars, tailVars>>

\* one iteration that returns json.load(...) (lines 108-113): the server
\* answers with the next page of the resource and says whether more follow
get_ok(page, more) ==
    /\ inGet
    /\ ~LoopDone(attempts)
    /\ Servable(srv, url)
    /\ page \in PagesAfter(srv)
    /\ more => Len(srv) + 1 < MaxPages
    /\ pc = "me" => (page = << >> /\ ~more)
    /\ srv' = Append(srv, page)
    /\ cursors' = Append(cursors, more)
    /\ attempts' = attempts + 1
    /\ lastErr' = "none"
    /\ fetched' = TRUE
    /\ bearer' = bearer \cup {Authorization(spotify)}
    /\ response' = Body(pc, page, url, more)
    /\ inGet' = FALSE
    /\ UNCHANGED <<pc, exitCode, envVars, auxVars, loginVars, listenerVars, url, sleeps,
                   failedAt, items, pagesFetched, listDone, ret, scriptVars,
                   tailVars>>

\* lines 500-501: me = spotify.get('me') has returned
me_continue ==
    /\ pc = "me"
    /\ Returned
    /\ response' = NoResponse
    /\ pc' = "prompt_foreign"
    /\ UNCHANGED <<exitCode, envVars, auxVars, loginVars, listenerVars, inGet, url,
                   attempts, sleeps, lastErr, fetched, bearer, failedAt,
                   listVars, scriptVars, tailVars>>

\* ---------------------------------------------- SpotifyAPI.list / list_artists
\* list reads response["items"] / ["next"]; list_artists reads them under
\* response['artists']
list_page(r) == r

\* list_artists reading the top level of the body, which has no "items" there
list_artists_page_flat(r) ==
    IF "artists" \in DOMAIN r THEN [items |-> << >>, next |-> Null] ELSE r

list_artists_page(r) == r.artists

Paging(step, r) ==
    IF step = "artists" THEN list_artists_page(r) ELSE list_page(r)

\* the new page put in front of the accumulator
list_append_front(acc, page) == page.items \o acc

\* items = response["items"] for the seed page, items += response["items"] after
list_append(acc, page) == acc \o page.items

\* the loop never entered: the seed page is all that is read
list_more_never(page) == FALSE

\* while response["next"]:
list_more(page) == page.next # Null

\* the loop asking for the seed URL again
next_request_seed(page) == SeedOf(pc)

\* line 129: the argument of the get() call in the loop, response["next"]
next_request(page) == page.next

File(name, id) == [file |-> name, id |-> id]

\* the files a step writes once its list call has returned
FilesOf(step) ==
    CASE step = "liked"          -> <<File("Liked.csv", 0)>>
      [] step = "playlists"      -> <<File("UserPlaylists.csv", 0),
                                      File("ForeignPlaylists.csv", 0)>>
      [] step = "user_tracks"    -> <<File("User/", Head(todo))>>
      [] step = "foreign_tracks" -> <<File("Foreign/", Head(todo))>>
      [] step = "artists"        -> <<File("Artists.csv", 0)>>
      [] step = "albums"         -> <<File("Albums.csv", 0)>>
      [] step = "shows"          -> <<File("Shows.csv", 0)>>
      [] step = "episodes"       -> <<File("Episodes.csv", 0)>>

NotOwn(playlist) == ~IsOwn(playlist)

\* lines 537 and 549-553: which loop, if any, runs after the playlist lists
AfterUser(foreign) ==
    IF save_foreign_playlists /\ foreign # << >> THEN "foreign_tracks"
    ELSE "artists"

AfterPlaylists(user, foreign) ==
    IF user # << >> THEN "user_tracks" ELSE AfterUser(foreign)

\* the statement the script reaches after the step's list call and save
NextStep(step, result) ==
    CASE step = "liked"     -> "playlists"
      [] step = "playlists" -> AfterPlaylists(SelectSeq(result, IsOwn),
                                              SelectSeq(result, NotOwn))
      [] step = "user_tracks" ->
            IF Tail(todo) # << >> THEN "user_tracks"
            ELSE AfterUser(foreign_playlists)
      [] step = "foreign_tracks" ->
            IF Tail(todo) # << >> THEN "foreign_tracks" ELSE "artists"
      [] step = "artists"   -> "albums"
      [] step = "albums"    -> "shows"
      [] step = "shows"     -> "episodes"
      [] step = "episodes"  -> "prompt_upload"

\* the playlists the for loop entered next still has to visit
NextTodo(step, result) ==
    CASE step = "playlists" ->
            IF SelectSeq(result, IsOwn) # << >>
            THEN SelectSeq(result, IsOwn)
            ELSE SelectSeq(result, NotOwn)
      [] step = "user_tracks" ->
            IF Tail(todo) # << >> THEN Tail(todo) ELSE foreign_playlists
      [] step = "foreign_tracks" -> Tail(todo)
      [] OTHER -> todo

\* the body of list / list_artists after a get() has returned: take the items,
\* then either request response["next"] or return to the script, which saves
\* the CSV file(s) of the step and moves on (lines 515-586)
list_continue ==
    /\ pc \in ListSteps
    /\ Returned
    /\ LET page == Paging(pc, response)
           acc  == list_append(items, page)
       IN  /\ items' = acc
           /\ pagesFetched' = pagesFetched + 1
           /\ response' = NoResponse
           /\ IF list_more(page)
              THEN /\ url' = get_url(next_request(page), << >>)
                   /\ inGet' = TRUE
                   /\ attempts' = 0
                   /\ sleeps' = 0
                   /\ UNCHANGED <<pc, listDone, ret, scriptVars>>
              ELSE /\ listDone' = TRUE
                   /\ ret' = acc
                   /\ written' = written \o FilesOf(pc)
                   /\ pc' = NextStep(pc, acc)
                   /\ todo' = NextTodo(pc, acc)
                   /\ IF pc = "playlists"
                      THEN /\ user_playlists' = SelectSeq(acc, IsOwn)
                           /\ foreign_playlists' = SelectSeq(acc, NotOwn)
                      ELSE UNCHANGED <<user_playlists, foreign_playlists>>
                   /\ UNCHANGED <<inGet, url, attempts, sleeps,
                                  save_foreign_playlists, b2_upload>>
    /\ UNCHANGED <<exitCode, envVars, auxVars, loginVars, listenerVars, lastErr,
                   fetched, bearer, failedAt, srv, cursors, tailVars>>

\* ------------------------------------------------------------- the prompts
\* lines 504-513: the foreign-playlist prompt, then the directories
prompt_foreign(answers) ==
    /\ pc = "prompt_foreign"
    /\ IF always_yes
       THEN /\ answers = << >>
            /\ save_foreign_playlists' = TRUE
       ELSE /\ yesno(answers, "n") # "blocked"
            /\ save_foreign_playlists' = (yesno(answers, "n") = "True")
    /\ pc' = "liked"
    /\ UNCHANGED <<exitCode, envVars, auxVars, loginVars, listenerVars, getVars,
                   listVars, user_playlists, foreign_playlists, todo,
                   b2_upload, written, tailVars>>

\* lines 590-595
prompt_upload(answers) ==
    /\ pc = "prompt_upload"
    /\ IF always_yes
       THEN /\ answers = << >>
            /\ b2_upload' = TRUE
       ELSE /\ yesno(answers, "y") # "blocked"
            /\ b2_upload' = (yesno(answers, "y") = "True")
    /\ pc' = IF b2_upload' THEN "upload" ELSE "delete"
    /\ UNCHANGED <<exitCode, envVars, auxVars, loginVars, listenerVars, getVars,
                   listVars, save_foreign_playlists, user_playlists,
                   foreign_playlists, todo, written, tailVars>>

\* ------------------------------------------------------- upload and delete
\* lines 596-624: authorize the account, sync the folder; any error is uncaught
upload(outcome) ==
    /\ pc = "upload"
    /\ IF outcome = "ok"
       THEN /\ uploaded' = TRUE
            /\ pc' = IF healthUrl = "set" THEN "ping" ELSE "delete"
            /\ UNCHANGED exitCode
       ELSE /\ Crash
            /\ UNCHANGED uploaded
    /\ UNCHANGED <<envVars, auxVars, loginVars, listenerVars, getVars, listVars,
                   scriptVars, pinged, deleted>>

\* lines 626-627
ping(outcome) ==
    /\ pc = "ping"
    /\ IF outcome = "ok"
       THEN /\ pinged' = TRUE
            /\ pc' = "delete"
            /\ UNCHANGED exitCode
       ELSE /\ Crash
            /\ UNCHANGED pinged
    /\ UNCHANGED <<envVars, auxVars, loginVars, listenerVars, getVars, listVars,
                   scriptVars, uploaded, deleted>>

\* lines 630-631, then the end of the script
finish ==
    /\ pc = "delete"
    /\ deleted' = delete_backup
    /\ pc' = "exit"
    /\ exitCode' = 0
    /\ UNCHANGED <<envVars, auxVars, loginVars, listenerVars, getVars, listVars,
                   scriptVars, uploaded, pinged>>

\* ---------------------------------------------------------- specifications
Outcomes == {"ok", "error"}

Next ==
    \/ \E o \in Outcomes : Startup(o)
    \/ \E o \in ExchangeOutcomes : generate(o)
    \/ authorize_open
    \/ \E o \in Outcomes : authorize_bind(o)
    \/ \E path \in RunPaths : do_GET(path)
    \/ call_begin
    \/ \E kind \in FailureKinds : get_fail(kind)
    \/ \E page \in PagesAfter(srv) : \E more \in BOOLEAN : get_ok(page, more)
    \/ me_continue
    \/ list_continue
    \/ \E answers \in AnswerSeqs : prompt_foreign(answers)
    \/ \E answers \in AnswerSeqs : prompt_upload(answers)
    \/ \E o \in Outcomes : upload(o)
    \/ \E o \in Outcomes : ping(o)
    \/ finish

Spec == Init /\ [][Next]_vars

\* the interactive login alone, with every request path of Paths
NextAuth ==
    \/ \E o \in Outcomes : Startup(o)
    \/ authorize_open
    \/ \E o \in Outcomes : authorize_bind(o)
    \/ \E path \in Paths : do_GET(path)
    \/ hit_before_bind
    \/ hit_after_close

SpecAuth == Init /\ [][NextAuth]_vars

\* get() called on its own: any URL argument, any params, up to the loop
InitUrl ==
    /\ pc = "get"
    /\ always_yes = FALSE
    /\ delete_backup = FALSE
    /\ healthUrl = "empty"
    /\ refreshTok = "set"
    /\ argUrl \in UrlInputs
    /\ argParams \in ParamInputs
    /\ track_list = << >>
    /\ yesnoAnswers = << >>
    /\ yesnoDefault = "None"
    /\ Fresh

\* lines 100-103 of get(url, params): the URL the loop will request
get_entry ==
    /\ pc = "get"
    /\ url' = get_url(argUrl, argParams)
    /\ pc' = "get_loop"
    /\ UNCHANGED <<exitCode, envVars, auxVars, loginVars, listenerVars, inGet,
                   attempts, sleeps, lastErr, response, fetched, bearer,
                   failedAt, listVars, scriptVars, tailVars>>

SpecUrl == InitUrl /\ [][get_entry]_vars

\* --------------------------------------------------------------- save_track
\* a saved-track record as far as lines 300-302 and 316 look at it: "track" is
\* an object or null, the object has or lacks "id" and "name", and its
\* "album" is an object, null or absent
TrackShapes ==
    {[track |-> "null", keys |-> {}, album |-> "absent"]}
    \cup {[track |-> "dict", keys |-> k, album |-> a] :
              k \in SUBSET {"id", "name"}, a \in {"dict", "null", "absent"}}

\* the exception raised while the row of lines 300-314 is built, the
\* subscripts evaluated in source order: d[k] raises KeyError when the dict d
\* lacks k and TypeError when d is None
row_raises(t) ==
    IF t.track = "null" THEN "TypeError"            \* None['id']
    ELSE IF "id" \notin t.keys THEN "KeyError"      \* track['track']['id']
    ELSE IF t.album = "absent" THEN "KeyError"      \* track['track']['album']
    ELSE IF t.album = "null" THEN "TypeError"       \* None['id']
    ELSE IF "name" \notin t.keys THEN "KeyError"    \* track['track']['name']
    ELSE "none"

\* the exception raised by the f-string of line 316, track['track']['name']
log_raises(t) ==
    IF t.track = "null" THEN "TypeError"
    ELSE IF "name" \notin t.keys THEN "KeyError"
    ELSE "none"

\* the for loop of lines 297-317 over the records left, acc the rows written
RECURSIVE save_loop(_, _)
save_loop(list, acc) ==
    IF list = << >> THEN [rows |-> acc, status |-> "closed"]
    ELSE LET t == Head(list)
         IN  CASE row_raises(t) = "none" ->
                    save_loop(Tail(list), Append(acc, t))
               [] row_raises(t) = "KeyError" /\ log_raises(t) = "none" ->
                    save_loop(Tail(list), acc)       \* logged, continue
               [] row_raises(t) = "KeyError" /\ log_raises(t) # "none" ->
                    [rows |-> acc, status |-> log_raises(t)]
               [] OTHER ->                            \* except KeyError only
                    [rows |-> acc, status |-> row_raises(t)]

\* save_track called on its own with any list of records
InitSave ==
    /\ pc = "save_track"
    /\ always_yes = FALSE
    /\ delete_backup = FALSE
    /\ healthUrl = "empty"
    /\ refreshTok = "set"
    /\ argUrl = NoUrl
    /\ argParams = << >>
    /\ track_list \in SeqsUpTo(TrackShapes, MaxRecords)
    /\ yesnoAnswers = << >>
    /\ yesnoDefault = "None"
    /\ Fresh

\* save_track(filename, track_list), lines 271-319: an exception that leaves
\* the loop leaves the script, nothing catches it
save_track ==
    /\ pc = "save_track"
    /\ LET r == save_loop(track_list, << >>)
       IN  /\ rows' = r.rows
           /\ saveStatus' = r.status
           /\ IF r.status = "closed"
              THEN pc' = "saved" /\ UNCHANGED exitCode
              ELSE Crash
    /\ UNCHANGED <<envVars, hitVars, callVars, promptVars, track_list, loginVars,
                   listenerVars, getVars, listVars, scriptVars, tailVars>>

SpecSave == InitSave /\ [][save_track]_vars

\* ------------------------------------------------------------ yesno alone
\* yesno called on its own as the script calls it, with default 'y' or 'n',
\* and any lines typed at its prompts
InitYesno ==
    /\ pc = "yesno"
    /\ always_yes = FALSE
    /\ delete_backup = FALSE
    /\ healthUrl = "empty"
    /\ refreshTok = "set"
    /\ argUrl = NoUrl
    /\ argParams = << >>
    /\ track_list = << >>
    /\ yesnoAnswers \in AnswerSeqs
    /\ yesnoDefault \in {"y", "n"}
    /\ Fresh

\* lines 55-75: the call reads the lines typed and returns, or is left at an
\* input() when they run out
yesno_call ==
    /\ pc = "yesno"
    /\ yesnoResult' = yesno(yesnoAnswers, yesnoDefault)
    /\ pc' = IF yesnoResult' = "blocked" THEN "yesno_input" ELSE "yesno_done"
    /\ UNCHANGED <<exitCode, envVars, hitVars, callVars, saveVars,
                   yesnoAnswers, yesnoDefault, loginVars, listenerVars,
                   getVars, listVars, scriptVars, tailVars>>

SpecYesno == InitYesno /\ [][yesno_call]_vars

\* ------------------------------------------------------------- properties

\* C1: whenever list has returned, its result is exactly the concatenation of
\* the pages the server served, page 1's items first, whatever the number of
\* pages: no item dropped, duplicated or reordered.
C1_ListReturnsPagesInOrder ==
    (listDone /\ written[Len(written)].file # "Artists.csv")
        => /\ ret = Flatten(srv)
           /\ \A i \in 1..Len(ret) : ret[i] = i

\* a list call over two non-empty pages has returned
C1_Witness ==
    /\ listDone
    /\ written[Len(written)].file = "Liked.csv"
    /\ Len(srv) = 2
    /\ srv[1] # << >>
    /\ srv[2] # << >>
    /\ Len(ret) = 2

\* C2: a get call whose attempts all fail has sent exactly 3 requests when it
\* gives up, and giving up is the exit of the process with status 1.
C2_ExactlyThreeAttemptsThenExit ==
    failedAt # "none"
        => /\ attempts = 3
           /\ sleeps = 3
           /\ lastErr # "none"
           /\ ~inGet
           /\ pc = "exit"
           /\ exitCode = 1

\* the user-info fetch has used up its attempts
C2_Witness == failedAt = "me" /\ attempts = 3 /\ exitCode = 1

\* C3: once a get call has used up its attempts the process is over with
\* status 1: the list call it belongs to has not returned, its items are in
\* no file, and nothing that follows the failing step in the script has run.
C3_FailFast ==
    failedAt # "none"
        => /\ pc = "exit"
           /\ exitCode = 1
           /\ ~listDone
           /\ ret = << >>
           /\ ~uploaded
           /\ ~pinged
           /\ ~deleted
           /\ \A i \in 1..Len(written) :
                LET rank == [f \in {"Liked.csv", "UserPlaylists.csv",
                                    "ForeignPlaylists.csv", "User/", "Foreign/",
                                    "Artists.csv", "Albums.csv", "Shows.csv",
                                    "Episodes.csv"} |->
                               CASE f = "Liked.csv" -> 1
                                 [] f \in {"UserPlaylists.csv",
                                           "ForeignPlaylists.csv"} -> 2
                                 [] f = "User/" -> 3
                                 [] f = "Foreign/" -> 4
                                 [] f = "Artists.csv" -> 5
                                 [] f = "Albums.csv" -> 6
                                 [] f = "Shows.csv" -> 7
                                 [] f = "Episodes.csv" -> 8]
                    step == [t \in GetSteps |->
                               CASE t = "me" -> 0
                                 [] t = "liked" -> 1
                                 [] t = "playlists" -> 2
                                 [] t = "user_tracks" -> 3
                                 [] t = "foreign_tracks" -> 4
                                 [] t = "artists" -> 5
                                 [] t = "albums" -> 6
                                 [] t = "shows" -> 7
                                 [] t = "episodes" -> 8]
                IN  \/ rank[written[i].file] < step[failedAt]
                    \/ /\ rank[written[i].file] = step[failedAt]
                       /\ failedAt \in {"user_tracks", "foreign_tracks"}
                       /\ written[i].id # Head(todo)

\* a later page of a later category fails after items were accumulated
C3_Witness ==
    /\ failedAt = "albums"
    /\ pagesFetched = 1
    /\ items # << >>
    /\ written # << >>
    /\ exitCode = 1

\* C4: with a refresh token configured the interactive flow is never started
\* (no browser, no listener); it is started only without one; the two
\* strategies never both run, and a run that is past the login ran one.
C4_StrategySelection ==
    /\ refreshTok = "set"
          => ("authorize" \notin started /\ ~browserOpen /\ sock = "none")
    /\ ("authorize" \in started \/ browserOpen \/ sock # "none")
          => refreshTok # "set"
    /\ "generate" \in started => refreshTok = "set"
    /\ Cardinality(started) <= 1
    /\ (spotify # NoSpotify \/ pc \in {"bind", "serve"} \/ fetched)
          => Cardinality(started) = 1
    /\ (spotify # NoSpotify /\ refreshTok = "set")
          => (started = {"generate"} /\ posts = 1)

\* an unattended run got its credential from the refresh token
C4_Witness ==
    /\ refreshTok = "set"
    /\ started = {"generate"}
    /\ spotify # NoSpotify
    /\ fetched

\* C5: generate posts to the token endpoint exactly once; when that call
\* fails or its body has no access_token the process is over with status 1
\* and no resource request was ever sent.
C5_ExchangeOnceNeverRetried ==
    /\ posts <= 1
    /\ "generate" \in started => posts = 1
    /\ ("generate" \in started /\ spotify = NoSpotify)
          => /\ pc = "exit"
             /\ exitCode = 1
             /\ ~fetched
             /\ bearer = {}
             /\ written = << >>

\* a failed exchange
C5_Witness ==
    /\ "generate" \in started
    /\ posts = 1
    /\ spotify = NoSpotify
    /\ exitCode = 1

\* C6: after generate the credential is the access_token the token endpoint
\* returned, and every resource request ever sent carried "Bearer " followed
\* by that same value.
C6_CredentialRoundTrip ==
    "generate" \in started /\ (granted # NoSpotify \/ spotify # NoSpotify)
        => /\ spotify = granted
           /\ spotify \in Tokens
           /\ bearer \subseteq {<<"Bearer ">> \o granted}
           /\ fetched => bearer = {<<"Bearer ">> \o granted}

\* a whole export, retries included, ran on the token "b"
C6_Witness ==
    /\ "generate" \in started
    /\ granted = <<"b">>
    /\ pc = "episodes"
    /\ inGet
    /\ attempts = 2
    /\ bearer = {<<"Bearer ", "b">>}

\* C7: a request whose path starts with /redirect is answered with the bridge
\* page and authorize keeps serving; a request /token?access_token=T, alone
\* or followed by &..., ends the serving with T as the credential.
C7_ListenerCapture ==
    /\ (lastPath # << >> /\ lastPath[1] = "/redirect")
          => /\ lastStatus = "bridge"
             /\ servedBridge
             /\ pc = "serve"
             /\ sock = "listening"
             /\ events = 0
             /\ spotify = NoSpotify
    /\ \A n \in 0..Len(lastPath) :
          ( /\ Len(lastPath) >= 3 + n
            /\ SubSeq(lastPath, 1, 3) = <<"/token", "?", "access_token=">>
            /\ \A j \in 4..(3 + n) : lastPath[j] # "&"
            /\ (Len(lastPath) = 3 + n \/ lastPath[4 + n] = "&") )
          => /\ lastStatus = "close"
             /\ events = 1
             /\ spotify = SubSeq(lastPath, 4, 3 + n)
             /\ pc = "me"

\* /redirect was served, then /token?access_token=a&x= ended the serving
C7_Witness ==
    /\ servedBridge
    /\ lastPath = <<"/token", "?", "access_token=", "a", "&", "x=">>
    /\ spotify = <<"a">>
    /\ pc = "me"

\* C8 as stated: a token is captured only after a /redirect request was served.
C8_CaptureOnlyAfterBridge == events > 0 => servedBridge

\* C8 amended: the listener goes LISTENING -> CAPTURED -> STOPPED with or
\* without SERVED_BRIDGE_PAGE in between: a token is captured exactly when a
\* /token?... request containing access_token= is handled, whether or not a
\* /redirect request was served before, and the capture ends the serving.
C8_CaptureFromAnyServingState ==
    /\ events > 0 <=> ( /\ Len(lastPath) >= 2
                        /\ lastPath[1] = "/token"
                        /\ lastPath[2] = "?"
                        /\ \E i \in 3..Len(lastPath) :
                              lastPath[i] = "access_token=" )
    /\ events > 0 => (events = 1 /\ pc = "me" /\ sock = "closed")

\* the first request the listener is sent is the capturing one
C8_Witness == events = 1 /\ ~servedBridge /\ handled = 1 /\ pc = "me"

\* C9: a request whose path starts neither with /redirect nor with /token? is
\* answered with 404 and changes nothing else: nothing is captured and
\* authorize is still serving.
C9_OtherPathsGet404 ==
    ( /\ lastPath # << >>
      /\ lastPath[1] # "/redirect"
      /\ ~(Len(lastPath) >= 2 /\ lastPath[1] = "/token" /\ lastPath[2] = "?") )
        => /\ lastStatus = "404"
           /\ events = 0
           /\ spotify = NoSpotify
           /\ pc = "serve"
           /\ sock = "listening"
           /\ exitCode = -1

\* three requests, a /redirect among them, the last one answered with 404
C9_Witness ==
    /\ handled = 3
    /\ servedBridge
    /\ lastStatus = "404"
    /\ lastPath = <<"/x", "/token", "?", "access_token=", "a">>

C11_HandlerErrorsSurface ==
    ( /\ Len(lastPath) >= 2
      /\ lastPath[1] = "/token"
      /\ lastPath[2] = "?"
      /\ "access_token=" \notin Range(lastPath) )
        => /\ lastStatus = "close"
           /\ pc = "exit"
           /\ exitCode = 1
           /\ sock = "closed"
           /\ events = 0
           /\ spotify = NoSpotify

\* /redirect was served, then /token?x=a was requested
C11_Witness ==
    /\ servedBridge
    /\ handled = 2
    /\ lastPath = <<"/token", "?", "x=", "a">>
    /\ exitCode = 1

\* C12: whenever list_artists has returned, its result is the concatenation,
\* in page order, of the items found under the "artists" key of each body the
\* server sent, and it fetched one page per body, following artists.next
\* until it was null.
C12_ListArtistsUnwraps ==
    (listDone /\ written[Len(written)].file = "Artists.csv")
        => /\ ret = Flatten(srv)
           /\ pagesFetched = Len(srv)
           /\ Len(cursors) = Len(srv)
           /\ \A i \in 1..Len(cursors) : cursors[i] <=> i < Len(cursors)

\* two pages of followed artists, one artist on each
C12_Witness ==
    /\ listDone
    /\ written[Len(written)].file = "Artists.csv"
    /\ srv = <<<<1>>, <<2>>>>
    /\ ret = <<1, 2>>

\* C13: a relative path is requested under the API base, and every absolute
\* URL taken from a "next" field and passed to get() without params is the
\* URL requested, verbatim: no base put in front of it, nothing added.
C13_AbsoluteNextVerbatim ==
    /\ (pc = "get_loop" /\ argUrl[1] \notin {Base, Other})
          => SubSeq(url, 1, Len(argUrl) + 1) = <<Base>> \o argUrl
    /\ (pc = "get_loop" /\ argParams = << >> /\ argUrl[1] \in {Base, Other})
          => url = argUrl

\* C14: save_track logs and skips every record with a missing key or a null
\* nested object, writes every well-formed record before and after it, and
\* never ends in an exception.
C14_SkipAndContinue ==
    saveStatus # "none"
        => /\ saveStatus = "closed"
           /\ exitCode = -1
           /\ rows = SelectSeq(track_list,
                               LAMBDA t : /\ t.track = "dict"
                                          /\ t.keys = {"id", "name"}
                                          /\ t.album = "dict")

\* C15: one authorize call raises at most one _Authorization, whatever
\* requests came before it, and from the capture on nothing handles a request
\* any more: a later hit on the port changes neither the captured token nor
\* the exit status of the process.
C15_AtMostOneCapture ==
    [][ /\ events' <= 1
        /\ events = 1 => /\ events' = 1
                         /\ spotify' = spotify
                         /\ handled' = handled
                         /\ exitCode' = exitCode ]_vars

\* two requests were handled before the capturing one, and the browser hit
\* the port once more afterwards
C15_Witness ==
    /\ events = 1
    /\ handled = 3
    /\ servedBridge
    /\ lateHits = 1
    /\ spotify = <<"a">>
    /\ exitCode = -1

\* C16: list and list_artists return exactly when a page with a null cursor
\* has been received, having fetched one page per cursor followed and not one
\* more; a follow-up fetch is under way only while every cursor received so
\* far was non-null; an empty first page with a null cursor gives an empty
\* result after one fetch.
C16_PaginationStops ==
    /\ listDone
          => /\ pagesFetched = Len(cursors)
             /\ Len(cursors) >= 1
             /\ \A i \in 1..Len(cursors) : cursors[i] <=> i < Len(cursors)
    /\ (pc \in ListSteps /\ inGet)
          => /\ pagesFetched = Len(cursors)
             /\ \A i \in 1..Len(cursors) : cursors[i]
    /\ (listDone /\ srv = << << >> >>) => (ret = << >> /\ pagesFetched = 1)

\* liked tracks: the first page is empty and has a null cursor
C16_Witness ==
    /\ listDone
    /\ written = <<File("Liked.csv", 0)>>
    /\ srv = << << >> >>
    /\ cursors = <<FALSE>>
    /\ pagesFetched = 1
    /\ ret = << >>

\* C17: a get() call that has returned made between one and three attempts,
\* slept once per failed attempt, so that its last attempt is the only
\* successful one, returned the body of that attempt, and left the process
\* running.
C17_RetryRecovers ==
    Returned
        => /\ attempts \in 1..tries
           /\ sleeps = attempts - 1
           /\ lastErr = "none"
           /\ exitCode = -1
           /\ failedAt = "none"
           /\ Len(srv) >= 1
           /\ (IF pc = "artists" THEN response.artists.items
               ELSE response.items) = srv[Len(srv)]

\* two failures, then the third attempt returns the first page of liked tracks
C17_Witness ==
    /\ Returned
    /\ pc = "liked"
    /\ attempts = 3
    /\ sleeps = 2
    /\ response.items = <<1>>

\* C18: a resource GET is sent only with a credential in hand; the request
\* under way in a list call is for the page after those already received,
\* all of which had a cursor; and a category is being fetched only when the
\* file of the category before it has been written, that is after its last
\* page was received.
C18_StrictlySequential ==
    /\ (fetched \/ inGet) => (spotify # NoSpotify /\ (events = 1 \/ posts = 1))
    /\ inGet => pc \in GetSteps
    /\ (inGet /\ pc \in ListSteps)
          => /\ Len(srv) = pagesFetched
             /\ PageOf(url) = pagesFetched + 1
             /\ \A i \in 1..Len(cursors) : cursors[i]
    /\ (pc \in ListSteps /\ (inGet \/ Returned))
          => LET last == IF written = << >> THEN "none"
                         ELSE written[Len(written)].file
             IN  CASE pc = "liked" -> last = "none"
                   [] pc = "playlists" -> last = "Liked.csv"
                   [] pc = "user_tracks" ->
                        last \in {"ForeignPlaylists.csv", "User/"}
                   [] pc \in {"foreign_tracks", "artists"} ->
                        last \in {"ForeignPlaylists.csv", "User/", "Foreign/"}
                   [] pc = "albums" -> last = "Artists.csv"
                   [] pc = "shows" -> last = "Albums.csv"
                   [] pc = "episodes" -> last = "Shows.csv"

\* the second page of saved albums is being requested, after the tracks of a
\* playlist of the user were exported
C18_Witness ==
    /\ inGet
    /\ pc = "albums"
    /\ pagesFetched = 1
    /\ PageOf(url) = 2
    /\ \E i \in 1..Len(written) : written[i].file = "User/"

\* C19: whenever the authorization URL has been opened in the browser the
\* listener is bound already, so that no request of the browser finds the
\* port without a listener.
C19_ListenerBoundBeforeBrowser ==
    /\ browserOpen => sock # "none"
    /\ earlyHits = 0

\* C20: the backup directory is deleted only after its upload has completed.
C20_DeletedOnlyAfterUpload == deleted => uploaded

\* C21: the first line typed that is empty or, stripped and lowercased, y or
\* n decides what yesno returns: an empty line gives the default (True for
\* 'y', False for 'n'), also after invalid lines; while no such line has been
\* typed the call is still waiting.
C21_DefaultHonoured ==
    pc \in {"yesno_input", "yesno_done"}
        => LET deciding == {i \in 1..Len(yesnoAnswers) :
                               strip_lower(yesnoAnswers[i]) \in {"", "y", "n"}}
           IN  IF deciding = {} THEN yesnoResult = "blocked"
               ELSE LET first == CHOOSE i \in deciding :
                                     \A j \in deciding : i <= j
                        ans == strip_lower(yesnoAnswers[first])
                        chosen == IF ans = "" THEN yesnoDefault ELSE ans
                    IN  yesnoResult = (IF chosen = "y" THEN "True" ELSE "False")

====
